---- MODULE Spec2Model ----
(***************************************************************************)
(* cfgbot: the message formatting of cfgbot.py and message.py (Spec),      *)
(* one run of cfgbot.py's main (MainSpec) and one call of collector.py's   *)
(* scan_repo with its pool of two worker threads (CollectorSpec).          *)
(*                                                                         *)
(* A Python str is a sequence of one-character strings, so that len, the   *)
(* slice s[:-k], concatenation and join are computed as Python computes    *)
(* them.  Python's None is the value None below, which is no str.          *)
(***************************************************************************)
EXTENDS Integers, Sequences, FiniteSets, TLC

VARIABLES
    post,       \* Spec: the post object the methods are called on
    given,      \* Spec: the post as it was constructed (history)
    call,       \* Spec: the method running or just returned, "none" between calls
    result,     \* Spec: what that call returned or raised
    pc,         \* MainSpec: main's position
    index,      \* MainSpec: the index generate_post selected
    gen,        \* MainSpec: generate_post's progress (function, images, error)
    mpost,      \* MainSpec: the post generate_post returned, None before
    attempts,   \* MainSpec: the posting attempts made so far, in order
    failed,     \* MainSpec: main's local variable failed
    logged,     \* MainSpec: the log messages written so far, in order
    exit,       \* MainSpec: how main ended: "running", "returned" or the exception
    files,      \* CollectorSpec: the number of files of the repository
    futures,    \* CollectorSpec: the futures of executor.map, one per file group
    workers,    \* CollectorSpec: the group each worker thread is scanning, 0 if none
    completed,  \* CollectorSpec: the groups whose scan has ended, in that order (history)
    errors,     \* CollectorSpec: the groups log.error was called for, in order
    consumed,   \* CollectorSpec: the groups whose result merge_indices' input has passed
    merged_index, \* CollectorSpec: merge_indices' local variable merged_index
    spc         \* CollectorSpec: scan_repo's position

msgVars == <<post, given, call, result>>
mainVars == <<pc, index, gen, mpost, attempts, failed, logged, exit>>
scanVars == <<files, futures, workers, completed, errors, consumed, merged_index, spc>>
vars == <<msgVars, mainVars, scanVars>>

---------------------------------------------------------------------------
(* Python values *)

None == <<"None">>

Max(a, b) == IF a > b THEN a ELSE b
Min(a, b) == IF a < b THEN a ELSE b

\* len(s)
len(s) == Len(s)

\* s[:e], Python's slice up to e (e < 0 counts from the end, clamped at 0)
SliceTo(s, e) ==
    IF e < 0 THEN SubSeq(s, 1, Max(0, Len(s) + e)) ELSE SubSeq(s, 1, Min(e, Len(s)))

\* f"{x}": str(x), which is "None" for None
Format(x) == IF x = None THEN <<"N", "o", "n", "e">> ELSE x

\* bool(x) of a str | None
Truthy(x) == x # None /\ Len(x) > 0

\* "".join(parts)
RECURSIVE Join(_)
Join(parts) ==
    IF parts = <<>> THEN <<>>
    ELSE IF Len(parts) = 1 THEN parts[1]
    ELSE LET half == Len(parts) \div 2
         IN Join(SubSeq(parts, 1, half)) \o Join(SubSeq(parts, half + 1, Len(parts)))

\* sep.join(parts)
RECURSIVE JoinWith(_, _)
JoinWith(sep, parts) ==
    IF parts = <<>> THEN <<>>
    ELSE IF Len(parts) = 1 THEN Head(parts)
    ELSE Head(parts) \o sep \o JoinWith(sep, Tail(parts))

\* sum(lengths[:n])
RECURSIVE SumLengths(_, _)
SumLengths(lengths, n) ==
    IF n = 0 THEN 0 ELSE SumLengths(lengths, n - 1) + lengths[n]

\* c * n
Repeat(c, n) == [i \in 1..n |-> c]

\* the string literals of the source
NL == <<"\n">>
SP == <<" ">>
S_Project == <<"P", "r", "o", "j", "e", "c", "t", ":", " ">>
S_File == <<"F", "i", "l", "e", ":", " ">>
S_Address == <<"A", "d", "d", "r", "e", "s", "s", ":", " ">>
S_SVG == <<"S", "V", "G", ":">>
S_Ellipsis == <<".", ".", ".">>
S_CommaSpace == <<",", " ">>
S_Indent == <<" ", " ">>
S_dark == <<"d", "a", "r", "k">>
S_light == <<"l", "i", "g", "h", "t">>
S_https == <<"h", "t", "t", "p", "s", ":", "/", "/">>

---------------------------------------------------------------------------
(* Program constants *)

BSKY_MAX_TEXT_LENGTH == 300
MASTO_MAX_TEXT_LENGTH == 500
MASTODON_URL_LENGTH == 23
MINIMAL_NODE_COUNT == 7
COLOR_SCHEMES == <<S_dark, S_light>>

\* Link(text=..., url=...)
Link(text, url) == [text |-> text, url |-> url]

---------------------------------------------------------------------------
(* atproto's client_utils.TextBuilder, as the source uses it: a list of    *)
(* text segments, a link segment carrying its URL as a facet beside the    *)
(* text; build_text() is the segments' texts joined.                       *)

TextBuilder == <<>>
B_text(builder, text) == Append(builder, [text |-> text, url |-> None])
B_link(builder, text, url) == Append(builder, [text |-> text, url |-> url])
build_text(builder) == Join([i \in 1..Len(builder) |-> builder[i].text])

\* for i, svg_link in enumerate(links): if i > 0: text(", "); link(text, url)
RECURSIVE bsky_render_list(_, _)
bsky_render_list(builder, links) ==
    IF links = <<>> THEN builder
    ELSE LET n == Len(links)
             before == bsky_render_list(builder, SubSeq(links, 1, n - 1))
             sep == IF n > 1 THEN B_text(before, S_CommaSpace) ELSE before
         IN B_link(sep, links[n].text, links[n].url)

\* What a call returns or raises
Returned(v) == [exc |-> "none", value |-> v]
Raised(e) == [exc |-> e, value |-> None]
NoResult == [exc |-> "none", value |-> None]

\* attrs.evolve(self, funcdef=funcdef)
evolve_funcdef(self, funcdef) == [self EXCEPT !.funcdef = funcdef]

---------------------------------------------------------------------------
(* cfgbot.py: GhidraPost and GithubPost *)

\* the loop over post.svgs that ends both _format_for_bluesky methods
cfgbot_svg_links(builder, svgs) == bsky_render_list(builder, svgs)

cfgbot_GhidraPost_format_for_bluesky(p) ==
    LET head ==
            B_text(B_text(B_text(B_text(B_text(B_text(B_text(TextBuilder,
                S_Project \o Format(p.project) \o SP \o Format(p.version)),
                NL),
                S_File \o Format(p.filename)),
                NL),
                S_Address \o Format(p.address)),
                NL),
                NL)
        body ==
            IF Truthy(p.funcdef)
            THEN B_text(B_text(B_text(head, Format(p.funcdef)), NL), NL)
            ELSE head
    IN cfgbot_svg_links(B_text(body, S_SVG \o SP), p.svgs)

cfgbot_GithubPost_format_for_bluesky(p) ==
    LET head ==
            B_text(B_text(B_link(B_text(B_link(B_text(TextBuilder,
                S_Project),
                p.project.text, p.project.url),
                NL \o S_File),
                p.code.text, p.code.url),
                NL \o NL \o Format(p.funcdef) \o NL \o NL),
                S_SVG \o SP)
    IN cfgbot_svg_links(head, p.svgs)

cfgbot_format_for_bluesky(p) ==
    IF p.cls = "GithubPost"
    THEN cfgbot_GithubPost_format_for_bluesky(p)
    ELSE cfgbot_GhidraPost_format_for_bluesky(p)

\* mutant: one character more than needed is cut off
cfgbot_shortened_one_more(funcdef, to_remove) ==
    SliceTo(funcdef, -to_remove - 4) \o S_Ellipsis

\* funcdef = f"{self.funcdef[:-to_remove-3]}..."
cfgbot_shortened(funcdef, to_remove) == SliceTo(funcdef, -to_remove - 3) \o S_Ellipsis

\* the guard before the shortening: is None (GhidraPost only) or to_remove > len
cfgbot_too_long(self, to_remove) ==
    (self.cls = "GhidraPost" /\ self.funcdef = None) \/ to_remove > len(self.funcdef)

\* GhidraPost.into_bsky and GithubPost.into_bsky
cfgbot_into_bsky(self) ==
    LET builder == cfgbot_format_for_bluesky(self)
        post_text == build_text(builder)
        to_remove == len(post_text) - BSKY_MAX_TEXT_LENGTH
    IN IF len(post_text) <= BSKY_MAX_TEXT_LENGTH THEN Returned(builder)
       ELSE IF cfgbot_too_long(self, to_remove) THEN Raised("ValueError")
       ELSE Returned(cfgbot_format_for_bluesky(
                evolve_funcdef(self, cfgbot_shortened(self.funcdef, to_remove))))

\* svg = "\n".join(f"  {svg.text} {svg.url}" for svg in self.svgs)
cfgbot_svg_lines(svgs) ==
    JoinWith(NL, [i \in 1..Len(svgs) |-> S_Indent \o svgs[i].text \o SP \o svgs[i].url])

cfgbot_GhidraPost_into_mastodon(self) ==
    S_Project \o Format(self.project) \o SP \o Format(self.version) \o NL
    \o S_File \o Format(self.filename) \o NL
    \o S_Address \o Format(self.address) \o NL \o NL
    \o Format(self.funcdef) \o NL \o NL
    \o S_SVG \o NL \o cfgbot_svg_lines(self.svgs)

cfgbot_GithubPost_into_mastodon(self) ==
    S_Project \o self.project.text \o SP \o self.project.url \o NL
    \o S_File \o self.code.text \o SP \o self.code.url \o NL \o NL
    \o Format(self.funcdef) \o NL \o NL
    \o S_SVG \o NL \o cfgbot_svg_lines(self.svgs)

cfgbot_into_mastodon(self) ==
    Returned(IF self.cls = "GithubPost"
             THEN cfgbot_GithubPost_into_mastodon(self)
             ELSE cfgbot_GhidraPost_into_mastodon(self))

---------------------------------------------------------------------------
(* message.py *)

\* a MessagePart: str | Link | list[Link]
StrPart(text) == [type |-> "str", text |-> text]
LinkPart(link) == [type |-> "Link", link |-> link]
ListPart(links) == [type |-> "list", links |-> links]

ghidra_message_template(p) ==
    <<StrPart(S_Project \o Format(p.project) \o SP \o Format(p.version)),
      StrPart(NL),
      StrPart(S_File \o Format(p.filename)),
      StrPart(NL),
      StrPart(S_Address \o Format(p.address)),
      StrPart(NL),
      StrPart(NL)>>
    \o (IF Truthy(p.funcdef) THEN <<StrPart(Format(p.funcdef) \o NL \o NL)>> ELSE <<>>)
    \o <<StrPart(S_SVG \o SP), ListPart(p.svgs)>>

github_message_template(p) ==
    <<StrPart(S_Project),
      LinkPart(p.project),
      StrPart(NL),
      StrPart(S_File),
      LinkPart(p.code),
      StrPart(NL \o NL),
      StrPart(Format(p.funcdef) \o NL \o NL),
      StrPart(S_SVG \o SP),
      ListPart(p.svgs)>>

\* the templates of tests/message_test.py: [text] and [link]
text_template(p) == <<StrPart(p.text)>>
link_template(p) == <<LinkPart(p.link)>>

\* template(post), the template named by the class of the post it is written for
Template(template, p) ==
    CASE template = "github" -> github_message_template(p)
      [] template = "ghidra" -> ghidra_message_template(p)
      [] template = "text" -> text_template(p)
      [] template = "link" -> link_template(p)

TemplateOf(p) ==
    CASE p.cls = "GithubPost" -> "github"
      [] p.cls = "GhidraPost" -> "ghidra"
      [] p.cls = "str" -> "text"
      [] p.cls = "Link" -> "link"

masto_render_list(links) ==
    NL \o JoinWith(NL,
        [i \in 1..Len(links) |-> S_Indent \o links[i].text \o SP \o links[i].url])

masto_link_list_length(links) ==
    len(masto_render_list(
        [i \in 1..Len(links) |-> Link(links[i].text, Repeat("x", MASTODON_URL_LENGTH))]))

\* mutant: the space between a link's text and its URL is not counted
masto_part_length_no_space(part) ==
    CASE part.type = "str" -> len(part.text)
      [] part.type = "Link" -> len(part.link.text) + MASTODON_URL_LENGTH
      [] part.type = "list" -> masto_link_list_length(part.links)

\* one part's share of masto_get_message_length
masto_part_length(part) ==
    CASE part.type = "str" -> len(part.text)
      [] part.type = "Link" -> len(part.link.text) + MASTODON_URL_LENGTH + 1
      [] part.type = "list" -> masto_link_list_length(part.links)

\* mutant: the ", " between the links of a list is not counted
bsky_part_length_no_separator(part) ==
    CASE part.type = "str" -> len(part.text)
      [] part.type = "Link" -> len(part.link.text)
      [] part.type = "list" ->
            SumLengths([i \in 1..Len(part.links) |-> len(part.links[i].text)],
                       Len(part.links))

\* one part's share of bsky_get_message_length
bsky_part_length(part) ==
    CASE part.type = "str" -> len(part.text)
      [] part.type = "Link" -> len(part.link.text)
      [] part.type = "list" -> len(build_text(bsky_render_list(TextBuilder, part.links)))

masto_get_message_length(template, p) ==
    LET message_parts == Template(template, p)
    IN SumLengths([i \in 1..Len(message_parts) |-> masto_part_length(message_parts[i])],
                  Len(message_parts))

bsky_get_message_length(template, p) ==
    LET message_parts == Template(template, p)
    IN SumLengths([i \in 1..Len(message_parts) |-> bsky_part_length(message_parts[i])],
                  Len(message_parts))

\* one part's text in masto_render
masto_part_text(part) ==
    CASE part.type = "str" -> part.text
      [] part.type = "Link" -> part.link.text \o SP \o part.link.url
      [] part.type = "list" -> masto_render_list(part.links)

masto_render(template, p) ==
    LET message_parts == Template(template, p)
    IN Join([i \in 1..Len(message_parts) |-> masto_part_text(message_parts[i])])

\* one part added to the builder in bsky_render
bsky_part_add(builder, part) ==
    CASE part.type = "str" -> B_text(builder, part.text)
      [] part.type = "Link" -> B_link(builder, part.link.text, part.link.url)
      [] part.type = "list" -> bsky_render_list(builder, part.links)

RECURSIVE bsky_render_parts(_, _)
bsky_render_parts(message_parts, n) ==
    IF n = 0 THEN TextBuilder
    ELSE bsky_part_add(bsky_render_parts(message_parts, n - 1), message_parts[n])

bsky_render(template, p) ==
    LET message_parts == Template(template, p)
    IN bsky_render_parts(message_parts, Len(message_parts))

\* mutant: a funcdef exactly as long as the excess is refused too
abbreviated_raises_at_equal(self, excess_length) ==
    self.funcdef = None \/ excess_length >= len(self.funcdef)

\* GhidraPost.abbreviated and GithubPost.abbreviated: the guard that raises
abbreviated_raises(self, excess_length) ==
    self.funcdef = None \/ excess_length > len(self.funcdef)

\* funcdef = f"{self.funcdef[:-excess_length - 3]}..."
abbreviated_funcdef(funcdef, excess_length) ==
    SliceTo(funcdef, -excess_length - 3) \o S_Ellipsis

abbreviated(self, excess_length) ==
    IF abbreviated_raises(self, excess_length) THEN Raised("ValueError")
    ELSE Returned(evolve_funcdef(self, abbreviated_funcdef(self.funcdef, excess_length)))

\* the length into_bsky measures the post with
into_bsky_length(self) == masto_get_message_length(TemplateOf(self), self)

\* GhidraPost.into_bsky and GithubPost.into_bsky
message_into_bsky(self) ==
    LET length == into_bsky_length(self)
        excess_length == length - BSKY_MAX_TEXT_LENGTH
        short == abbreviated(self, excess_length)
    IN IF excess_length <= 0 THEN Returned(bsky_render(TemplateOf(self), self))
       ELSE IF short.exc # "none" THEN short
       ELSE Returned(bsky_render(TemplateOf(self), short.value))

\* GhidraPost.into_mastodon and GithubPost.into_mastodon
message_into_mastodon(self) ==
    LET length == masto_get_message_length(TemplateOf(self), self)
        excess_length == length - MASTO_MAX_TEXT_LENGTH
        short == abbreviated(self, excess_length)
    IN IF excess_length <= 0 THEN Returned(masto_render(TemplateOf(self), self))
       ELSE IF short.exc # "none" THEN short
       ELSE Returned(masto_render(TemplateOf(self), short.value))

---------------------------------------------------------------------------
(* The posts the methods are called on.  The text of one field (the        *)
(* project name) is padded so that the message without its funcdef lies    *)
(* within Window characters of a platform limit under one of the measures  *)
(* the code uses, or is short; the funcdef is None (GhidraPost), short or  *)
(* long.                                                                   *)

MaxSvgs == 2
MaxFuncdef == 5
LongFuncdef == 600
Window == 4
LongUrl == 30

S_funcdef == <<"f", "u", "n", "c", "d", "e", "f">>
FuncdefOf(n) == [i \in 1..n |-> S_funcdef[((i - 1) % 7) + 1]]
Funcdefs == {FuncdefOf(n) : n \in (0..MaxFuncdef) \cup {LongFuncdef}}

Url(n) == S_https \o Repeat("u", n)
Urls == {Url(2), Url(LongUrl)}

SvgLinks(n, url) ==
    [i \in 1..n |-> Link(COLOR_SCHEMES[((i - 1) % Len(COLOR_SCHEMES)) + 1], url)]

GithubInput(pad, funcdef, n, url) ==
    [cls |-> "GithubPost",
     project |-> Link(Repeat("p", pad), url),
     code |-> Link(<<"a", ".", "c", ":", "1">>, url),
     funcdef |-> funcdef,
     svgs |-> SvgLinks(n, url)]

GhidraInput(pad, funcdef, n, url) ==
    [cls |-> "GhidraPost",
     project |-> Repeat("p", pad),
     version |-> <<"1">>,
     filename |-> <<"a", ".", "o">>,
     address |-> <<"4", "0", "1">>,
     funcdef |-> funcdef,
     svgs |-> SvgLinks(n, url)]

Input(cls, pad, funcdef, n, url) ==
    IF cls = "GithubPost" THEN GithubInput(pad, funcdef, n, url)
    ELSE GhidraInput(pad, funcdef, n, url)

\* the pads that put the unpadded post p0, measured m long, near the limit
PadsNear(limit, m) == {pad \in (limit - m - Window)..(limit - m + Window) : pad >= 0}

Pads(p0) ==
    {0}
    \cup PadsNear(BSKY_MAX_TEXT_LENGTH, len(build_text(cfgbot_format_for_bluesky(p0))))
    \cup PadsNear(BSKY_MAX_TEXT_LENGTH, masto_get_message_length(TemplateOf(p0), p0))
    \cup PadsNear(MASTO_MAX_TEXT_LENGTH, masto_get_message_length(TemplateOf(p0), p0))

PostClasses == {"GithubPost", "GhidraPost"}

Posts ==
    UNION {
        {Input(cls, pad, funcdef, n, url) :
            pad \in Pads(Input(cls, 0, <<>>, n, url)),
            funcdef \in Funcdefs \cup (IF cls = "GhidraPost" THEN {None} ELSE {})} :
        cls \in PostClasses, n \in 0..MaxSvgs, url \in Urls}

\* what the test templates are applied to: a str and a Link
TestPosts ==
    {[cls |-> "str", text |-> FuncdefOf(n)] : n \in 0..MaxFuncdef}
    \cup {[cls |-> "Link", link |-> Link(FuncdefOf(n), url)] : n \in 0..MaxFuncdef, url \in Urls}

\* the main run is idle in Spec
MainIdle ==
    /\ pc = "idle"
    /\ index = None
    /\ gen = None
    /\ mpost = None
    /\ attempts = <<>>
    /\ failed = FALSE
    /\ logged = <<>>
    /\ exit = "running"

\* scan_repo is idle in Spec and in MainSpec
NoIndex == [empty |-> TRUE, scanned_group |-> 0, functions |-> <<>>]
MAX_WORKERS == 2
ScanIdle ==
    /\ files = 0
    /\ futures = <<>>
    /\ workers = [w \in 1..MAX_WORKERS |-> 0]
    /\ completed = <<>>
    /\ errors = <<>>
    /\ consumed = <<>>
    /\ merged_index = NoIndex
    /\ spc = "idle"

Init ==
    /\ post \in Posts \cup TestPosts
    /\ given = post
    /\ call = "none"
    /\ result = NoResult
    /\ MainIdle
    /\ ScanIdle

\* a method of the post is called and returns or raises
Call(name, outcome) ==
    /\ call = "none"
    /\ call' = name
    /\ result' = outcome
    /\ UNCHANGED <<post, given>>
    /\ UNCHANGED <<mainVars, scanVars>>

CfgbotIntoBsky ==
    /\ post.cls \in PostClasses
    /\ Call("cfgbot.into_bsky", cfgbot_into_bsky(post))

CfgbotIntoMastodon ==
    /\ post.cls \in PostClasses
    /\ Call("cfgbot.into_mastodon", cfgbot_into_mastodon(post))

MessageIntoBsky ==
    /\ post.cls \in PostClasses
    /\ Call("message.into_bsky", message_into_bsky(post))

MessageIntoMastodon ==
    /\ post.cls \in PostClasses
    /\ Call("message.into_mastodon", message_into_mastodon(post))

BskyGetMessageLength ==
    Call("bsky_get_message_length", Returned(bsky_get_message_length(TemplateOf(post), post)))

MastoGetMessageLength ==
    Call("masto_get_message_length", Returned(masto_get_message_length(TemplateOf(post), post)))

BskyRender ==
    Call("bsky_render", Returned(bsky_render(TemplateOf(post), post)))

MastoRender ==
    Call("masto_render", Returned(masto_render(TemplateOf(post), post)))

\* the caller is done with the result; the post can be used again
Return ==
    /\ call # "none"
    /\ call' = "none"
    /\ result' = NoResult
    /\ UNCHANGED <<post, given>>
    /\ UNCHANGED <<mainVars, scanVars>>

Next ==
    \/ CfgbotIntoBsky
    \/ CfgbotIntoMastodon
    \/ MessageIntoBsky
    \/ MessageIntoMastodon
    \/ BskyGetMessageLength
    \/ MastoGetMessageLength
    \/ BskyRender
    \/ MastoRender
    \/ Return

Spec == Init /\ [][Next]_vars

---------------------------------------------------------------------------
(* What the platforms count.  Bluesky counts the characters of the built   *)
(* text.  Mastodon counts every URL of the status (from "https://" to the  *)
(* next white space or the end) as 23 characters and every other character *)
(* as one.                                                                 *)

IsSpace(c) == c \in {" ", "\n"}

UrlStarts(t) == {i \in 1..(Len(t) - 7) : t[i] = "h" /\ SubSeq(t, i, i + 7) = S_https}

RECURSIVE UrlEnd(_, _)
UrlEnd(t, j) ==
    IF j >= Len(t) \/ IsSpace(t[j + 1]) THEN j ELSE UrlEnd(t, j + 1)

RECURSIVE UrlChars(_, _)
UrlChars(t, starts) ==
    IF starts = {} THEN 0
    ELSE LET i == CHOOSE x \in starts : TRUE
         IN (UrlEnd(t, i) - i + 1) + UrlChars(t, starts \ {i})

MastoCountedLength(t) ==
    LET starts == UrlStarts(t)
    IN Len(t) - UrlChars(t, starts) + 23 * Cardinality(starts)

BskyCountedLength(builder) == Len(build_text(builder))

\* the call returned a message (it did not raise)
ReturnedFrom(name) == call = name /\ result.exc = "none"

---------------------------------------------------------------------------
(* C1 -- Bluesky limit, cfgbot.py: whenever into_bsky of a GithubPost or a *)
(* GhidraPost returns a TextBuilder, the text it builds has at most        *)
(* BSKY_MAX_TEXT_LENGTH = 300 characters, also when the funcdef is shorter *)
(* than excess + 3 characters.                                             *)
C1_CfgbotBskyWithinLimit ==
    ReturnedFrom("cfgbot.into_bsky")
        => BskyCountedLength(result.value) <= BSKY_MAX_TEXT_LENGTH

(* C2 -- Mastodon limit, cfgbot.py: the status text into_mastodon returns, *)
(* which post_to_mastodon passes to status_post, counts at most 500        *)
(* characters with every URL counted as 23, whatever the funcdef's length. *)
C2_CfgbotMastoWithinLimit ==
    ReturnedFrom("cfgbot.into_mastodon")
        => MastoCountedLength(result.value) <= MASTO_MAX_TEXT_LENGTH

(* C3 -- Mastodon limit, message.py: whenever into_mastodon returns a      *)
(* string, its Mastodon-counted length is at most MASTO_MAX_TEXT_LENGTH =  *)
(* 500, also when len(funcdef) is excess, excess + 1 or excess + 2.        *)
C3_MessageMastoWithinLimit ==
    ReturnedFrom("message.into_mastodon")
        => MastoCountedLength(result.value) <= MASTO_MAX_TEXT_LENGTH

(* C4 -- Bluesky limit, message.py: whenever into_bsky returns a           *)
(* TextBuilder, the text it builds has at most 300 characters, also for a  *)
(* post whose list of SVG links is empty.                                  *)
C4_MessageBskyWithinLimit ==
    ReturnedFrom("message.into_bsky")
        => BskyCountedLength(result.value) <= BSKY_MAX_TEXT_LENGTH

(* C6 -- message.py: when the Bluesky text with the full funcdef, as       *)
(* bsky_render builds it, has at most 300 characters, into_bsky does not   *)
(* raise and returns that text, the funcdef unabbreviated.                 *)
C6_FittingBskyPostIsKept ==
    (call = "message.into_bsky"
     /\ BskyCountedLength(bsky_render(TemplateOf(post), post)) <= BSKY_MAX_TEXT_LENGTH)
        => /\ result.exc = "none"
           /\ build_text(result.value) = build_text(bsky_render(TemplateOf(post), post))

(* C7 -- an over-long post is shortened by as much as necessary and no     *)
(* more: whenever into_bsky of cfgbot.py (limit 300, length of the built   *)
(* text) or into_mastodon of message.py (limit 500, URLs counted as 23)    *)
(* returns a message other than the full one, that message's length under  *)
(* the same measure is not below the limit, and it is the message of the   *)
(* post with its funcdef replaced by a prefix of the funcdef and '...'.    *)
C7_CfgbotBskyShortened ==
    (ReturnedFrom("cfgbot.into_bsky") /\ result.value # cfgbot_format_for_bluesky(post))
        => /\ BskyCountedLength(result.value) >= BSKY_MAX_TEXT_LENGTH
           /\ \E k \in 0..Len(post.funcdef) :
                 result.value = cfgbot_format_for_bluesky(
                     evolve_funcdef(post, SubSeq(post.funcdef, 1, k) \o S_Ellipsis))

C7_MessageMastoShortened ==
    (ReturnedFrom("message.into_mastodon")
     /\ result.value # masto_render(TemplateOf(post), post))
        => /\ MastoCountedLength(result.value) >= MASTO_MAX_TEXT_LENGTH
           /\ \E k \in 0..Len(post.funcdef) :
                 result.value = masto_render(TemplateOf(post),
                     evolve_funcdef(post, SubSeq(post.funcdef, 1, k) \o S_Ellipsis))

\* C7, both methods: shortened by as much as necessary and no more
C7_ShortenedNoMoreThanNeeded == C7_CfgbotBskyShortened /\ C7_MessageMastoShortened

\* a long funcdef cut by message.py's into_mastodon to exactly the limit
C7_Witness ==
    /\ ReturnedFrom("message.into_mastodon")
    /\ Len(post.funcdef) = LongFuncdef
    /\ result.value # masto_render(TemplateOf(post), post)
    /\ MastoCountedLength(result.value) = MASTO_MAX_TEXT_LENGTH

(* C8 -- for every template and post, bsky_get_message_length(template,    *)
(* post) is the number of characters of the text bsky_render(template,     *)
(* post) builds.                                                           *)
C8_BskyLengthIsRenderedLength ==
    ReturnedFrom("bsky_get_message_length")
        => result.value = Len(build_text(bsky_render(TemplateOf(post), post)))

\* the length of a github post with two SVG links has been computed
C8_Witness ==
    /\ ReturnedFrom("bsky_get_message_length")
    /\ post.cls = "GithubPost"
    /\ Len(post.svgs) = 2
    /\ result.value > BSKY_MAX_TEXT_LENGTH

(* C9 -- single fallback branch: into_bsky and into_mastodon of message.py *)
(* raise ValueError and return no message exactly when the measured length *)
(* exceeds the platform limit by an excess greater than len(funcdef), or   *)
(* exceeds it at all while the funcdef is None; otherwise they return a    *)
(* message.  The post they were called on is unchanged either way.         *)
C9_MustRaise(limit) ==
    LET excess == masto_get_message_length(TemplateOf(post), post) - limit
    IN excess > 0 /\ (post.funcdef = None \/ excess > Len(post.funcdef))

C9_Outcome(limit) ==
    /\ result.exc \in {"none", "ValueError"}
    /\ result.exc = "ValueError" <=> C9_MustRaise(limit)
    /\ result.exc = "ValueError" => result.value = None
    /\ result.exc = "none" => result.value # None
    /\ post = given

\* C9, both methods: ValueError exactly when the funcdef cannot make up the
\* excess, a message otherwise, the post unchanged
C9_RaisesExactlyWhenFuncdefTooShort ==
    /\ call = "message.into_bsky" => C9_Outcome(BSKY_MAX_TEXT_LENGTH)
    /\ call = "message.into_mastodon" => C9_Outcome(MASTO_MAX_TEXT_LENGTH)

\* into_mastodon raised for a post whose funcdef is one character too short
C9_Witness ==
    /\ call = "message.into_mastodon"
    /\ result.exc = "ValueError"
    /\ post.funcdef # None
    /\ masto_get_message_length(TemplateOf(post), post) - MASTO_MAX_TEXT_LENGTH
           = Len(post.funcdef) + 1

---------------------------------------------------------------------------
(* github.py and the URL builders of cfgbot.py *)

S_github_com ==
    <<"h", "t", "t", "p", "s", ":", "/", "/", "g", "i", "t", "h", "u", "b",
      ".", "c", "o", "m", "/">>
S_blob == <<"/", "b", "l", "o", "b", "/">>
S_hash_L == <<"#", "L">>
S_render ==
    <<"h", "t", "t", "p", "s", ":", "/", "/", "t", "m", "r", "2", "3", "2",
      ".", "g", "i", "t", "h", "u", "b", ".", "i", "o", "/", "f", "u", "n",
      "c", "t", "i", "o", "n", "-", "g", "r", "a", "p", "h", "-", "o", "v",
      "e", "r", "v", "i", "e", "w", "/", "r", "e", "n", "d", "e", "r", "/">>
S_q_github == <<"?", "g", "i", "t", "h", "u", "b", "=">>
S_q_graph == <<"?", "g", "r", "a", "p", "h", "=">>
S_amp_colors == <<"&", "c", "o", "l", "o", "r", "s", "=">>
S_json == <<".", "j", "s", "o", "n">>
S_slash == <<"/">>
S_colon == <<":">>

\* str(n) of an int n >= 0
Digits == <<"0", "1", "2", "3", "4", "5", "6", "7", "8", "9">>
RECURSIVE str_int(_)
str_int(n) ==
    IF n < 10 THEN <<Digits[n + 1]>> ELSE str_int(n \div 10) \o <<Digits[(n % 10) + 1]>>

\* urllib.parse.quote_plus of one character: ' ' is '+', a reserved
\* character is its %XX escape, a letter, a digit or one of "_.-~" is kept
quote_plus_char(c) ==
    CASE c = " " -> <<"+">>
      [] c = ":" -> <<"%", "3", "A">>
      [] c = "/" -> <<"%", "2", "F">>
      [] c = "#" -> <<"%", "2", "3">>
      [] c = "\\" -> <<"%", "5", "C">>
      [] c = "&" -> <<"%", "2", "6">>
      [] c = "=" -> <<"%", "3", "D">>
      [] c = "?" -> <<"%", "3", "F">>
      [] c = "+" -> <<"%", "2", "B">>
      [] OTHER -> <<c>>

quote_plus(s) == Join([i \in 1..Len(s) |-> quote_plus_char(s[i])])

get_code_url(project, ref, filename, line) ==
    S_github_com \o project \o S_blob \o ref \o S_slash \o filename \o S_hash_L \o str_int(line)

get_project_url(project) == S_github_com \o project

\* mutant: every link is the link of the dark scheme
render_github_url_dark(github_link, colors) ==
    S_render \o S_q_github \o quote_plus(github_link) \o S_amp_colors \o S_dark

render_github_url(github_link, colors) ==
    S_render \o S_q_github \o quote_plus(github_link) \o S_amp_colors \o colors

render_graph_url(ghidra_link, colors) ==
    S_render \o S_q_graph \o quote_plus(ghidra_link) \o S_amp_colors \o colors

\* s.replace("\\", "/")
replace_backslash(s) == [i \in 1..Len(s) |-> IF s[i] = "\\" THEN "/" ELSE s[i]]

---------------------------------------------------------------------------
(* One run of main: the indices it can find, generate_post, the two        *)
(* posting attempts.                                                       *)

MaxFunctions == 2
StaminaAttempts == 10

S_repo == <<"o", "/", "r">>
S_ref == <<"a", "b", "c">>
S_long_name == Repeat("n", BSKY_MAX_TEXT_LENGTH)

NodeCounts == {MINIMAL_NODE_COUNT - 1, MINIMAL_NODE_COUNT}

\* the functions of one file start at different rows
GithubFunctions ==
    {[funcdef |-> funcdef, node_count |-> n, filename |-> filename,
      start_position |-> [row |-> IF funcdef = FuncdefOf(MaxFuncdef)
                                  THEN 70 + n ELSE 80 + n,
                          column |-> 0]] :
        funcdef \in {FuncdefOf(MaxFuncdef), FuncdefOf(LongFuncdef)},
        n \in NodeCounts,
        filename \in {<<"a", ".", "c">>}}
    \cup
    {[funcdef |-> FuncdefOf(MaxFuncdef), node_count |-> MINIMAL_NODE_COUNT,
      filename |-> S_long_name, start_position |-> [row |-> 0, column |-> 0]]}

\* the functions of one binary are at different addresses
GhidraFunctions ==
    {[address |-> str_int(IF name = None THEN 4010 + n ELSE 4020 + n),
      name |-> name, node_count |-> n] :
        name \in {None, FuncdefOf(MaxFuncdef)}, n \in NodeCounts}

SeqsUpTo(S, n) == UNION {[1..k -> S] : k \in 0..n}

\* Index(**orjson.loads(...)).content of the index files main can find; a
\* Ghidra index comes with the IndexLocator that found it
Indices ==
    {[index_type |-> "github", project |-> S_repo, ref |-> S_ref, functions |-> fs] :
        fs \in SeqsUpTo(GithubFunctions, MaxFunctions)}
    \cup
    {[index_type |-> "ghidra", project |-> <<"p">>, filename |-> <<"a", ".", "o">>,
      version |-> <<"1">>, functions |-> fs,
      dir |-> <<"p", "\\", "a">>, raw_url_base |-> S_github_com \o S_repo] :
        fs \in SeqsUpTo(GhidraFunctions, MaxFunctions)}

\* [function for function in index.functions if function.node_count >= MINIMAL_NODE_COUNT]
\* mutant: the comparison is off by one
IsInteresting_one_less(function) == function.node_count >= MINIMAL_NODE_COUNT - 1

IsInteresting(function) == function.node_count >= MINIMAL_NODE_COUNT
interesting_functions(functions) == SelectSeq(functions, IsInteresting)

\* the locals of one call of generate_post: which of generate_github_post
\* and generate_ghidra_post it called, the function selected, the
\* outcome of every attempt of the fetch, the text it returned, the state
\* of the temporary directory, every call of render (with the state of the
\* temporary directory at that call), the images, and the exception raised
S_code == <<"c", "o", "d", "e">>
NoGen ==
    [generator |-> "none", function |-> None, fetches |-> <<>>, code |-> None,
     tempdir |-> "none", renders |-> <<>>, images |-> <<>>, error |-> "none"]

\* the post generate_github_post builds for the function
github_post(idx, function, colors_schemes) ==
    LET line == function.start_position.row + 1
        code_url == get_code_url(idx.project, idx.ref, function.filename, line)
    IN [cls |-> "GithubPost",
        project |-> Link(idx.project, get_project_url(idx.project)),
        code |-> Link(function.filename \o S_colon \o str_int(line), code_url),
        funcdef |-> function.funcdef,
        svgs |-> [i \in 1..Len(colors_schemes) |->
                    Link(colors_schemes[i], render_github_url(code_url, colors_schemes[i]))]]

\* the post generate_ghidra_post builds for the function
ghidra_post(idx, function, colors_schemes) ==
    LET graph_path == idx.dir \o <<"\\">> \o function.address \o S_json
        graph_url == replace_backslash(idx.raw_url_base \o S_slash \o graph_path)
    IN [cls |-> "GhidraPost",
        project |-> idx.project,
        version |-> idx.version,
        filename |-> idx.filename,
        address |-> function.address,
        funcdef |-> function.name,
        svgs |-> [i \in 1..Len(colors_schemes) |->
                    Link(colors_schemes[i], render_graph_url(graph_url, colors_schemes[i]))]]

\* generate_post: generate_github_post for a GithubIndex, else generate_ghidra_post
generated_post(idx, function, colors_schemes) ==
    IF idx.index_type = "github"
    THEN github_post(idx, function, colors_schemes)
    ELSE ghidra_post(idx, function, colors_schemes)

\* the method calls are idle in MainSpec
MessageIdle ==
    /\ post = None
    /\ given = None
    /\ call = "none"
    /\ result = NoResult

MainInit ==
    /\ pc = "main"
    /\ index = None
    /\ gen = NoGen
    /\ mpost = None
    /\ attempts = <<>>
    /\ failed = FALSE
    /\ logged = <<>>
    /\ exit = "running"
    /\ MessageIdle
    /\ ScanIdle

Log(messages) == logged' = logged \o messages

\* mutant: the temporary directory is made without the with block
GenerateRaisesFrom_leaks(g, e) ==
    /\ gen' = [g EXCEPT !.error = e]
    /\ exit' = e
    /\ pc' = "done"
    /\ UNCHANGED <<index, mpost, attempts, failed>>
    /\ UNCHANGED <<msgVars, scanVars>>

\* an exception leaves generate_post, whose locals are g, and main: nothing
\* catches it; the with block removes the temporary directory on the way
GenerateRaisesFrom(g, e) ==
    /\ gen' = [g EXCEPT !.error = e,
                        !.tempdir = IF @ = "exists" THEN "removed" ELSE @]
    /\ exit' = e
    /\ pc' = "done"
    /\ UNCHANGED <<index, mpost, attempts, failed>>
    /\ UNCHANGED <<msgVars, scanVars>>

GenerateRaises(e) == GenerateRaisesFrom(gen, e)

\* main up to the call of generate_post: find_github_indices returns the paths
MainFindIndices ==
    /\ pc = "main"
    /\ pc' = "choose_index"
    /\ Log(<<"Loading indices", "Indices found", "Generating post">>)
    /\ UNCHANGED <<index, gen, mpost, attempts, failed, exit>>
    /\ UNCHANGED <<msgVars, scanVars>>

\* find_github_indices raises (GHIDRA_EXPORT_ROOT is not set)
MainFindIndicesRaises ==
    /\ pc = "main"
    /\ pc' = "done"
    /\ exit' = "TypeError"
    /\ Log(<<"Loading indices">>)
    /\ UNCHANGED <<index, gen, mpost, attempts, failed>>
    /\ UNCHANGED <<msgVars, scanVars>>

\* generate_post: random.choice(index_paths), the index file is read and parsed
GenLoadIndex ==
    /\ pc = "choose_index"
    /\ \E idx \in Indices : index' = idx
    /\ pc' = "select_function"
    /\ Log(<<"Index selected">>)
    /\ UNCHANGED <<gen, mpost, attempts, failed, exit>>
    /\ UNCHANGED <<msgVars, scanVars>>

\* index_paths is empty, or the file cannot be read or is no valid index
GenLoadIndexRaises ==
    /\ pc = "choose_index"
    /\ \E e \in {"IndexError", "OSError", "ValidationError"} : GenerateRaises(e)
    /\ UNCHANGED logged

\* generate_post: if isinstance(index, GithubIndex) ... else ...
generator_of(idx) ==
    IF idx.index_type = "github" THEN "generate_github_post"
                                 ELSE "generate_ghidra_post"

\* random.choice(interesting_functions): IndexError on an empty list
GenSelectFunction ==
    /\ pc = "select_function"
    /\ LET interesting == interesting_functions(index.functions)
           g == [gen EXCEPT !.generator = generator_of(index)]
       IN IF interesting = <<>>
          THEN GenerateRaisesFrom(g, "IndexError")
          ELSE /\ \E i \in 1..Len(interesting) :
                    gen' = [g EXCEPT !.function = interesting[i]]
               /\ pc' = IF index.index_type = "github" THEN "fetch" ELSE "render"
               /\ UNCHANGED <<index, mpost, attempts, failed, exit>>
               /\ UNCHANGED <<msgVars, scanVars>>
    /\ UNCHANGED logged

\* fetch_github_function, one attempt of httpx.get that succeeds: the
\* decorator returns its text
GenFetch ==
    /\ pc = "fetch"
    /\ gen' = [gen EXCEPT !.fetches = Append(@, "ok"), !.code = S_code]
    /\ pc' = "write"
    /\ UNCHANGED <<index, mpost, attempts, failed, logged, exit>>
    /\ UNCHANGED <<msgVars, scanVars>>

\* one attempt that raises httpx.ReadTimeout: stamina repeats it, until the
\* attempts (or the time it allows) are used up and the ReadTimeout is raised
GenFetchReadTimeout ==
    /\ pc = "fetch"
    /\ LET g == [gen EXCEPT !.fetches = Append(@, "ReadTimeout")]
       IN \E give_up \in BOOLEAN :
            IF Len(g.fetches) >= StaminaAttempts \/ give_up
            THEN /\ GenerateRaisesFrom(g, "ReadTimeout")
                 /\ UNCHANGED logged
            ELSE /\ gen' = g
                 /\ UNCHANGED <<pc, index, mpost, attempts, failed, logged, exit>>
                 /\ UNCHANGED <<msgVars, scanVars>>

\* mutant: the decorator repeats the call on every exception
GenFetchRaises_retried ==
    /\ pc = "fetch"
    /\ Len(gen.fetches) + 1 < StaminaAttempts
    /\ gen' = [gen EXCEPT !.fetches = Append(@, "ConnectError")]
    /\ UNCHANGED <<pc, index, mpost, attempts, failed, logged, exit>>
    /\ UNCHANGED <<msgVars, scanVars>>

\* one attempt that raises another exception: not retried
GenFetchRaises ==
    /\ pc = "fetch"
    /\ GenerateRaisesFrom([gen EXCEPT !.fetches = Append(@, "ConnectError")],
                          "ConnectError")
    /\ UNCHANGED logged

\* with tempfile.TemporaryDirectory() as tempdir: codefile.write_text(code)
GenWriteCode ==
    /\ pc = "write"
    /\ gen' = [gen EXCEPT !.tempdir = "exists"]
    /\ pc' = "render"
    /\ UNCHANGED <<index, mpost, attempts, failed, logged, exit>>
    /\ UNCHANGED <<msgVars, scanVars>>

\* write_text raises inside the with block
GenWriteCodeRaises ==
    /\ pc = "write"
    /\ gen' = [gen EXCEPT !.tempdir = "removed", !.error = "OSError"]
    /\ exit' = "OSError"
    /\ pc' = "done"
    /\ UNCHANGED <<index, mpost, attempts, failed, logged>>
    /\ UNCHANGED <<msgVars, scanVars>>

\* one round of the loop over colors_schemes: the render subprocess and
\* Image.from_svg succeed
GenRender ==
    /\ pc = "render"
    /\ Len(gen.images) < Len(COLOR_SCHEMES)
    /\ LET colors == COLOR_SCHEMES[Len(gen.images) + 1]
       IN gen' = [gen EXCEPT
                    !.renders = Append(@, [colors |-> colors,
                                           tempdir |-> gen.tempdir]),
                    !.images = Append(@, [colors |-> colors,
                                          function |-> gen.function])]
    /\ UNCHANGED <<pc, index, mpost, attempts, failed, logged, exit>>
    /\ UNCHANGED <<msgVars, scanVars>>

\* the render subprocess fails (check_output raises CalledProcessError)
GenRenderRaises ==
    /\ pc = "render"
    /\ Len(gen.images) < Len(COLOR_SCHEMES)
    /\ LET colors == COLOR_SCHEMES[Len(gen.images) + 1]
       IN GenerateRaisesFrom(
              [gen EXCEPT !.renders = Append(@, [colors |-> colors,
                                                 tempdir |-> gen.tempdir])],
              "CalledProcessError")
    /\ UNCHANGED logged

\* mutant: the return sits inside the loop, after the first color scheme
GenReturn_inside_loop ==
    /\ pc = "render"
    /\ Len(gen.images) >= 1
    /\ gen' = [gen EXCEPT !.tempdir = IF @ = "exists" THEN "removed" ELSE @]
    /\ mpost' = generated_post(index, gen.function, COLOR_SCHEMES)
    /\ failed' = FALSE
    /\ pc' = "post_bluesky"
    /\ UNCHANGED <<index, attempts, logged, exit>>
    /\ UNCHANGED <<msgVars, scanVars>>

\* the loop is over: the with block is left, the post is built and returned
\* with the images; main prints it and sets failed = False
GenReturn ==
    /\ pc = "render"
    /\ Len(gen.images) = Len(COLOR_SCHEMES)
    /\ gen' = [gen EXCEPT !.tempdir = IF @ = "exists" THEN "removed" ELSE @]
    /\ mpost' = generated_post(index, gen.function, COLOR_SCHEMES)
    /\ failed' = FALSE
    /\ pc' = "post_bluesky"
    /\ UNCHANGED <<index, attempts, logged, exit>>
    /\ UNCHANGED <<msgVars, scanVars>>

\* try: post_to_bluesky(post, images) except Exception: failed = True.
\* The attempt raises when into_bsky raises, and may raise in the client.
PostToBluesky ==
    /\ pc = "post_bluesky"
    /\ \E raised \in BOOLEAN :
        /\ cfgbot_into_bsky(mpost).exc # "none" => raised
        /\ attempts' = Append(attempts, [platform |-> "bluesky", raised |-> raised])
        /\ failed' = (failed \/ raised)
        /\ Log(<<"Posting to Bluesky">>
               \o IF raised THEN <<"Failed posting to bluesky">> ELSE <<>>)
    /\ pc' = "post_mastodon"
    /\ UNCHANGED <<index, gen, mpost, exit>>
    /\ UNCHANGED <<msgVars, scanVars>>

\* try: post_to_mastodon(post, images) except Exception: failed = True
PostToMastodon ==
    /\ pc = "post_mastodon"
    /\ \E raised \in BOOLEAN :
        /\ cfgbot_into_mastodon(mpost).exc # "none" => raised
        /\ attempts' = Append(attempts, [platform |-> "mastodon", raised |-> raised])
        /\ failed' = (failed \/ raised)
        /\ Log(<<"Posting to Mastodon">>
               \o IF raised THEN <<"Failed posting to Mastodon">> ELSE <<>>)
    /\ pc' = "finish"
    /\ UNCHANGED <<index, gen, mpost, exit>>
    /\ UNCHANGED <<msgVars, scanVars>>

\* mutant: the failures are logged and forgotten
MainFinish_forgets_failures ==
    /\ pc = "finish"
    /\ exit' = "returned"
    /\ Log(<<"Posting successful">>)
    /\ pc' = "done"
    /\ UNCHANGED <<index, gen, mpost, attempts, failed>>
    /\ UNCHANGED <<msgVars, scanVars>>

\* if failed: raise RuntimeError(...); log.info("Posting successful")
MainFinish ==
    /\ pc = "finish"
    /\ IF failed
       THEN exit' = "RuntimeError" /\ UNCHANGED logged
       ELSE exit' = "returned" /\ Log(<<"Posting successful">>)
    /\ pc' = "done"
    /\ UNCHANGED <<index, gen, mpost, attempts, failed>>
    /\ UNCHANGED <<msgVars, scanVars>>

MainNext ==
    \/ MainFindIndices
    \/ MainFindIndicesRaises
    \/ GenLoadIndex
    \/ GenLoadIndexRaises
    \/ GenSelectFunction
    \/ GenFetch
    \/ GenFetchReadTimeout
    \/ GenFetchRaises
    \/ GenWriteCode
    \/ GenWriteCodeRaises
    \/ GenRender
    \/ GenRenderRaises
    \/ GenReturn
    \/ PostToBluesky
    \/ PostToMastodon
    \/ MainFinish

MainSpec == MainInit /\ [][MainNext]_vars

---------------------------------------------------------------------------
SomeAttemptRaised == \E i \in 1..Len(attempts) : attempts[i].raised
\* generate_post has returned to main
GenerateReturned ==
    \/ pc \in {"post_bluesky", "post_mastodon", "finish"}
    \/ pc = "done" /\ gen.error = "none" /\ Len(gen.images) = Len(COLOR_SCHEMES)

(* C5 -- in one run of main, after generate_post has returned, posting is  *)
(* attempted exactly once on each platform, Bluesky first and Mastodon     *)
(* second, the Mastodon attempt being made whether or not the Bluesky      *)
(* attempt raised; main raises RuntimeError if and only if at least one    *)
(* attempt raised, and only after both were made; 'Posting successful' is  *)
(* logged only when neither raised.                                        *)
C5_BothPlatformsAttempted ==
    /\ Len(attempts) <= 2
    /\ Len(attempts) >= 1 => attempts[1].platform = "bluesky"
    /\ Len(attempts) >= 2 => attempts[2].platform = "mastodon"
    /\ (pc = "done" /\ GenerateReturned)
           => /\ Len(attempts) = 2
              /\ exit = "RuntimeError" <=> SomeAttemptRaised
              /\ exit = "returned" <=> ~SomeAttemptRaised
    /\ exit = "RuntimeError" => Len(attempts) = 2 /\ SomeAttemptRaised
    /\ (\E i \in 1..Len(logged) : logged[i] = "Posting successful")
           => Len(attempts) = 2 /\ ~SomeAttemptRaised

\* the Bluesky attempt raised (into_bsky's ValueError), the Mastodon attempt was made and succeeded,
\* and main raised RuntimeError
C5_Witness ==
    /\ pc = "done"
    /\ Len(attempts) = 2
    /\ attempts[1].raised
    /\ cfgbot_into_bsky(mpost).exc = "ValueError"
    /\ ~attempts[2].raised
    /\ exit = "RuntimeError"

(* C10 -- nothing is published before generation is complete: no attempt   *)
(* to post happens before generate_post has returned the post and the      *)
(* images of all color schemes; if generate_post raises, main ends with    *)
(* that error and no post is attempted on either platform.                 *)
C10_NoPostBeforeGenerated ==
    /\ attempts # <<>>
           => /\ GenerateReturned
              /\ gen.error = "none"
              /\ [i \in 1..Len(gen.images) |-> gen.images[i].colors] = COLOR_SCHEMES
              /\ mpost = generated_post(index, gen.function, COLOR_SCHEMES)
    /\ gen.error # "none"
           => /\ attempts = <<>>
              /\ pc = "done"
              /\ exit = gen.error

\* the render of the second color scheme failed: main ended with the error
C10_Witness ==
    /\ gen.error = "CalledProcessError"
    /\ Len(gen.images) = 1
    /\ pc = "done"
    /\ attempts = <<>>
    /\ exit = "CalledProcessError"

---------------------------------------------------------------------------
\* the last attempt of the fetch, "none" before the first
LastFetch == IF gen.fetches = <<>> THEN "none" ELSE gen.fetches[Len(gen.fetches)]

(* C11 -- fetch_github_function repeats the HTTP fetch only after an       *)
(* attempt that raised httpx.ReadTimeout: every attempt that was followed  *)
(* by another one raised ReadTimeout; after an attempt that raised another *)
(* exception the run has ended with that exception; after a successful     *)
(* attempt the fetch is over and its text is held; there are never more    *)
(* attempts than the fixed maximum, and once the fetch is over with a      *)
(* ReadTimeout as its last attempt (as it is at the maximum), the          *)
(* ReadTimeout has ended generation and the run.                           *)
C11_RetryOnlyOnReadTimeout ==
    /\ \A i \in 1..(Len(gen.fetches) - 1) : gen.fetches[i] = "ReadTimeout"
    /\ Len(gen.fetches) <= StaminaAttempts
    /\ LastFetch = "ConnectError"
           => pc = "done" /\ exit = "ConnectError" /\ gen.error = "ConnectError"
    /\ LastFetch = "ok" => pc # "fetch" /\ gen.code = S_code
    /\ gen.code = S_code => LastFetch = "ok"
    /\ (LastFetch = "ReadTimeout" /\ pc # "fetch")
           => /\ pc = "done" /\ exit = "ReadTimeout" /\ gen.error = "ReadTimeout"
              /\ attempts = <<>>
    /\ (LastFetch = "ReadTimeout" /\ Len(gen.fetches) = StaminaAttempts)
           => pc = "done"

\* every attempt up to the maximum raised ReadTimeout: the last one left
\* generate_post and main
C11_Witness ==
    /\ Len(gen.fetches) = StaminaAttempts
    /\ LastFetch = "ReadTimeout"
    /\ exit = "ReadTimeout"

---------------------------------------------------------------------------
\* generate_github_post was called
InGenerateGithubPost == gen.generator = "generate_github_post"

(* C13 -- the temporary directory of generate_github_post: every call of   *)
(* render, for every color scheme, the failing one included, was made      *)
(* while the directory existed; and once generate_github_post has returned *)
(* or raised, the directory does not exist: it was removed if it had been  *)
(* made, also when writing the file or a render failed.                    *)
C13_TempDirLifecycle ==
    InGenerateGithubPost
        => /\ \A i \in 1..Len(gen.renders) : gen.renders[i].tempdir = "exists"
           /\ (GenerateReturned \/ gen.error # "none")
                  => /\ gen.tempdir # "exists"
                     /\ (gen.renders # <<>> \/ gen.error = "OSError")
                            => gen.tempdir = "removed"
           /\ GenerateReturned
                  => Len(gen.renders) = Len(COLOR_SCHEMES)

\* the render of the second color scheme failed in the directory, which
\* is gone now that generate_github_post has raised
C13_Witness ==
    /\ InGenerateGithubPost
    /\ gen.error = "CalledProcessError"
    /\ Len(gen.renders) = 2
    /\ gen.renders[2].tempdir = "exists"
    /\ gen.tempdir = "removed"

---------------------------------------------------------------------------
\* the first position of the character c in s, 0 if there is none
IndexOf(s, c) ==
    IF \E i \in 1..Len(s) : s[i] = c
    THEN CHOOSE i \in 1..Len(s) : s[i] = c /\ \A j \in 1..(i - 1) : s[j] # c
    ELSE 0

\* the query string of a URL: what follows its first "?"
QueryOf(url) ==
    IF IndexOf(url, "?") = 0 THEN <<>> ELSE SubSeq(url, IndexOf(url, "?") + 1, Len(url))

\* the value of the parameter key in the query string of the URL, None if
\* the URL has no such parameter
QueryValue(url, key) ==
    LET q == QueryOf(url)
        k == key \o <<"=">>
        starts == {i \in 1..Len(q) : /\ i = 1 \/ q[i - 1] = "&"
                                     /\ i + Len(k) - 1 <= Len(q)
                                     /\ SubSeq(q, i, i + Len(k) - 1) = k}
    IN IF starts = {} THEN None
       ELSE LET i == CHOOSE i \in starts : \A j \in starts : i <= j
                from == i + Len(k)
                ends == {j \in from..Len(q) : q[j] = "&"}
                to == IF ends = {} THEN Len(q)
                      ELSE (CHOOSE j \in ends : \A e \in ends : j <= e) - 1
            IN SubSeq(q, from, to)

S_github == <<"g", "i", "t", "h", "u", "b">>
S_graph == <<"g", "r", "a", "p", "h">>
S_colors == <<"c", "o", "l", "o", "r", "s">>

\* the link to the rendered graph is a link for the function: its github=
\* value is the quoted URL of the function's line, its graph= value the
\* quoted URL of the JSON file of the function's address
SvgLinkIsFor(url, idx, function) ==
    IF idx.index_type = "github"
    THEN QueryValue(url, S_github)
           = quote_plus(get_code_url(idx.project, idx.ref, function.filename,
                                     function.start_position.row + 1))
    ELSE QueryValue(url, S_graph)
           = quote_plus(replace_backslash(
                 idx.raw_url_base \o S_slash \o idx.dir \o <<"\\">>
                     \o function.address \o S_json))

(* C14 -- one variant per color scheme: whenever generate_github_post or   *)
(* generate_ghidra_post has returned, the list of images and the post's    *)
(* list of SVG links each have one entry per element of colors_schemes,    *)
(* in that order: the i-th image was rendered with the i-th scheme, the    *)
(* i-th link has the i-th scheme as its text and as its colors= value,     *)
(* and every image and every link is for the one function selected, which  *)
(* is also the function the post describes.                                *)
C14_OneVariantPerColorScheme ==
    GenerateReturned
        => /\ Len(gen.images) = Len(COLOR_SCHEMES)
           /\ Len(mpost.svgs) = Len(COLOR_SCHEMES)
           /\ \A i \in 1..Len(COLOR_SCHEMES) :
                /\ gen.images[i].colors = COLOR_SCHEMES[i]
                /\ gen.images[i].function = gen.function
                /\ gen.renders[i].colors = COLOR_SCHEMES[i]
                /\ mpost.svgs[i].text = COLOR_SCHEMES[i]
                /\ QueryValue(mpost.svgs[i].url, S_colors) = COLOR_SCHEMES[i]
                /\ SvgLinkIsFor(mpost.svgs[i].url, index, gen.function)
           /\ mpost.funcdef = IF index.index_type = "github"
                              THEN gen.function.funcdef ELSE gen.function.name

\* generate_github_post has returned for a function of an index with two
\* functions to choose from: the second link is the one of the light scheme
C14_Witness ==
    /\ GenerateReturned
    /\ index.index_type = "github"
    /\ Len(interesting_functions(index.functions)) = 2
    /\ index.functions[1] # index.functions[2]
    /\ gen.images[2].colors = S_light
    /\ QueryValue(mpost.svgs[2].url, S_colors) = S_light

---------------------------------------------------------------------------
\* the post describes the function: its funcdef, and its file and line or
\* its address
PostDescribes(p, function) ==
    IF p.cls = "GithubPost"
    THEN /\ p.funcdef = function.funcdef
         /\ p.code.text = function.filename \o S_colon
                              \o str_int(function.start_position.row + 1)
    ELSE /\ p.funcdef = function.name
         /\ p.address = function.address

(* C15 -- function selection: whenever generate_post has returned a post,  *)
(* the function the post describes is an element of the selected index's   *)
(* function list and has node_count >= MINIMAL_NODE_COUNT = 7; when the    *)
(* selected index has no function with node_count >= 7, generate_post has  *)
(* raised (random.choice's IndexError) and there is no post.               *)
C15_FunctionSelection ==
    /\ GenerateReturned
           => /\ \E i \in 1..Len(index.functions) : index.functions[i] = gen.function
              /\ gen.function.node_count >= 7
              /\ PostDescribes(mpost, gen.function)
    /\ (/\ gen.generator # "none"
        /\ \A i \in 1..Len(index.functions) : index.functions[i].node_count < 7)
           => /\ pc = "done"
              /\ gen.error = "IndexError"
              /\ exit = "IndexError"
              /\ attempts = <<>>
              /\ mpost = None

\* the index has a function of 6 nodes and one of 7: the post describes
\* the latter
C15_Witness ==
    /\ GenerateReturned
    /\ Len(index.functions) = 2
    /\ index.functions[1].node_count = 6
    /\ index.functions[2].node_count = 7
    /\ gen.function = index.functions[2]
    /\ PostDescribes(mpost, gen.function)

---------------------------------------------------------------------------
\* the URLs of the links of a post: the project link and the file link of
\* a GithubPost, and each SVG link
LinkUrls(p) ==
    (IF p.cls = "GithubPost" THEN <<p.project.url, p.code.url>> ELSE <<>>)
        \o [i \in 1..Len(p.svgs) |-> p.svgs[i].url]

\* the length of the text once each of the URLs in it is replaced by a
\* string of MASTODON_URL_LENGTH characters
LengthWithUrlsReplaced(text, urls) ==
    Len(text) - SumLengths([i \in 1..Len(urls) |-> Len(urls[i])], Len(urls))
        + MASTODON_URL_LENGTH * Len(urls)

(* C16 -- for every GithubPost and GhidraPost, masto_get_message_length of *)
(* the post's template and the post is the Mastodon-counted length of      *)
(* masto_render of them: the length of the rendered string after the URL   *)
(* of every link in it (project link, file link, each SVG link) is         *)
(* replaced by a string of MASTODON_URL_LENGTH = 23 characters, which is   *)
(* also what counting every https:// URL found in the text as 23 gives.    *)
C16_MastoLengthIsCountedLength ==
    (ReturnedFrom("masto_get_message_length") /\ post.cls \in PostClasses)
        => LET rendered == masto_render(TemplateOf(post), post)
           IN /\ result.value = LengthWithUrlsReplaced(rendered, LinkUrls(post))
              /\ result.value = MastoCountedLength(rendered)

\* the length of a GithubPost with two SVG links and long URLs was
\* computed: it differs from the length of the rendered string
C16_Witness ==
    /\ ReturnedFrom("masto_get_message_length")
    /\ post.cls = "GithubPost"
    /\ Len(post.svgs) = 2
    /\ Len(post.code.url) > MASTODON_URL_LENGTH
    /\ result.value < Len(masto_render(TemplateOf(post), post))

---------------------------------------------------------------------------
\* sub is a substring of text
Contains(text, sub) ==
    \E i \in 1..(Len(text) - Len(sub) + 1) : SubSeq(text, i, i + Len(sub) - 1) = sub

S_None == <<"N", "o", "n", "e">>

\* the text of the message a call of into_bsky or into_mastodon returned
MessageText ==
    IF call \in {"cfgbot.into_bsky", "message.into_bsky"}
    THEN build_text(result.value)
    ELSE result.value

(* C17 -- a GhidraPost whose funcdef is None yields a message with no      *)
(* funcdef block on either platform: whenever into_bsky or into_mastodon   *)
(* of cfgbot.py or of message.py has returned a message for such a post,   *)
(* the text goes from the 'Address:' line straight to 'SVG:' and does not  *)
(* contain the text 'None'.                                                *)
C17_NoFuncdefBlockForNone ==
    (/\ call \in {"cfgbot.into_bsky", "cfgbot.into_mastodon",
                  "message.into_bsky", "message.into_mastodon"}
     /\ result.exc = "none"
     /\ post.cls = "GhidraPost"
     /\ post.funcdef = None)
        => /\ Contains(MessageText, S_Address \o post.address \o NL \o NL \o S_SVG)
           /\ ~Contains(MessageText, S_None)

---------------------------------------------------------------------------
(* collector.py: one call of scan_repo.  executor.map submits one call of  *)
(* scan_files per file group to a pool of MAX_WORKERS threads and yields   *)
(* the results in the order of the groups; filter(None, ...) drops the     *)
(* None of a failed group; merge_indices takes the first index and extends *)
(* its function list by those of the others.  A file is its number in the  *)
(* order of glob.iglob, a function found by a scan is the pair of its      *)
(* group's number and its number in the group's index.                     *)

FILES_PER_GROUP == 50
MaxGroups == 3
MaxScanned == 1

\* the repositories scanned: those of up to MaxGroups groups whose last
\* group is full or has one file
FileCounts == {n \in 0..(MaxGroups * FILES_PER_GROUP) : n % FILES_PER_GROUP <= 1}

\* chunked(files, files_per_group), the files being 1..n
iter_file_groups(n, files_per_group) ==
    [i \in 1..((n + files_per_group - 1) \div files_per_group) |->
        [j \in 1..Min(files_per_group, n - (i - 1) * files_per_group) |->
            (i - 1) * files_per_group + j]]

\* what scan_files returns for group i when the scan subprocess succeeds
\* and finds k functions: the index the subprocess wrote
scan_files(i, k) ==
    [empty |-> FALSE, scanned_group |-> i, functions |-> [j \in 1..k |-> <<i, j>>]]

CollectorInit ==
    /\ files \in FileCounts
    /\ futures = <<>>
    /\ workers = [w \in 1..MAX_WORKERS |-> 0]
    /\ completed = <<>>
    /\ errors = <<>>
    /\ consumed = <<>>
    /\ merged_index = NoIndex
    /\ spc = "scan_repo"
    /\ MessageIdle
    /\ MainIdle

\* scan_repo: executor.map(...) submits a call of scan_files for every
\* group before it yields anything; merge_indices is called with the results
ScanRepo ==
    /\ spc = "scan_repo"
    /\ futures' = [i \in 1..Len(iter_file_groups(files, FILES_PER_GROUP)) |->
                      [state |-> "queued", result |-> NoIndex]]
    /\ spc' = "merge_indices"
    /\ UNCHANGED <<files, workers, completed, errors, consumed, merged_index>>
    /\ UNCHANGED <<msgVars, mainVars>>

\* a worker thread without work takes the oldest call in the pool's queue
WorkerTake ==
    \E w \in 1..MAX_WORKERS :
        /\ workers[w] = 0
        /\ \E i \in 1..Len(futures) :
            /\ futures[i].state = "queued"
            /\ \A j \in 1..(i - 1) : futures[j].state # "queued"
            /\ futures' = [futures EXCEPT ![i].state = "running"]
            /\ workers' = [workers EXCEPT ![w] = i]
        /\ UNCHANGED <<files, completed, errors, consumed, merged_index, spc>>
        /\ UNCHANGED <<msgVars, mainVars>>

\* scan_files: check_call succeeds, the index the subprocess wrote is returned
WorkerScanned ==
    \E w \in 1..MAX_WORKERS, k \in 0..MaxScanned :
        /\ workers[w] # 0
        /\ futures' = [futures EXCEPT ![workers[w]] =
                          [state |-> "done", result |-> scan_files(workers[w], k)]]
        /\ completed' = Append(completed, workers[w])
        /\ workers' = [workers EXCEPT ![w] = 0]
        /\ UNCHANGED <<files, errors, consumed, merged_index, spc>>
        /\ UNCHANGED <<msgVars, mainVars>>

\* scan_files: check_call raises CalledProcessError, which is logged; None
\* is returned
WorkerScanFails ==
    \E w \in 1..MAX_WORKERS :
        /\ workers[w] # 0
        /\ futures' = [futures EXCEPT ![workers[w]] =
                          [state |-> "done", result |-> NoIndex]]
        /\ completed' = Append(completed, workers[w])
        /\ errors' = Append(errors, workers[w])
        /\ workers' = [workers EXCEPT ![w] = 0]
        /\ UNCHANGED <<files, consumed, merged_index, spc>>
        /\ UNCHANGED <<msgVars, mainVars>>

\* mutant: the results are taken as the calls complete
executor_map_next_as_completed(fs, cons) ==
    {i \in 1..Len(fs) : /\ fs[i].state = "done"
                        /\ \A j \in 1..Len(cons) : cons[j] # i}

\* the group whose result executor.map yields next: the one after those
\* yielded so far, once its call has ended
executor_map_next(fs, cons) ==
    {i \in {Len(cons) + 1} : i <= Len(fs) /\ fs[i].state = "done"}

\* merge_indices takes the next result: filter drops a None, next() makes
\* the first index the merged one, the loop extends its function list
MergeNext ==
    /\ spc = "merge_indices"
    /\ \E i \in executor_map_next(futures, consumed) :
        /\ consumed' = Append(consumed, i)
        /\ merged_index' =
               IF futures[i].result.empty THEN merged_index
               ELSE IF merged_index.empty THEN futures[i].result
               ELSE [merged_index EXCEPT !.functions = @ \o futures[i].result.functions]
    /\ UNCHANGED <<files, futures, workers, completed, errors, spc>>
    /\ UNCHANGED <<msgVars, mainVars>>

\* the results are used up: next() raises StopIteration if there was no
\* index at all, else json.dumps(merged_index) is returned
MergeReturn ==
    /\ spc = "merge_indices"
    /\ Len(consumed) = Len(futures)
    /\ spc' = IF merged_index.empty THEN "StopIteration" ELSE "returned"
    /\ UNCHANGED <<files, futures, workers, completed, errors, consumed, merged_index>>
    /\ UNCHANGED <<msgVars, mainVars>>

CollectorNext ==
    \/ ScanRepo
    \/ WorkerTake
    \/ WorkerScanned
    \/ WorkerScanFails
    \/ MergeNext
    \/ MergeReturn

CollectorSpec == CollectorInit /\ [][CollectorNext]_vars

---------------------------------------------------------------------------
\* the function lists of the first n groups whose scan succeeded, one
\* after the other in the order of the groups
RECURSIVE FunctionsOfSucceeded(_, _)
FunctionsOfSucceeded(fs, n) ==
    IF n = 0 THEN <<>>
    ELSE FunctionsOfSucceeded(fs, n - 1)
             \o (IF fs[n].result.empty THEN <<>> ELSE fs[n].result.functions)

Succeeded(fs) == {i \in 1..Len(fs) : fs[i].state = "done" /\ ~fs[i].result.empty}
Failed(fs) == {i \in 1..Len(fs) : fs[i].state = "done" /\ fs[i].result.empty}

(* C12 -- indexing with the two-worker pool: whatever the interleaving and *)
(* the completion order of the workers, when scan_repo returns, the        *)
(* function list of the merged index is the concatenation, in the order    *)
(* iter_file_groups produced the groups, of the function lists of exactly  *)
(* the groups whose scan_files call succeeded, and the merged index keeps  *)
(* the metadata of the first of them; a group whose scan failed was logged *)
(* and skipped, and the other groups were scanned all the same; no more    *)
(* than two groups are scanned at a time.                                  *)
C12_MergedInGroupOrder ==
    /\ spc = "returned"
           => /\ merged_index.functions = FunctionsOfSucceeded(futures, Len(futures))
              /\ merged_index.scanned_group \in Succeeded(futures)
              /\ \A i \in Succeeded(futures) : merged_index.scanned_group <= i
    /\ spc \in {"returned", "StopIteration"}
           => /\ Len(futures) = Len(iter_file_groups(files, FILES_PER_GROUP))
              /\ \A i \in 1..Len(futures) : futures[i].state = "done"
              /\ {errors[j] : j \in 1..Len(errors)} = Failed(futures)
    /\ \A i \in Failed(futures) :
           Cardinality({j \in 1..Len(errors) : errors[j] = i}) = 1
    /\ Cardinality({i \in 1..Len(futures) : futures[i].state = "running"}) <= 2

\* three groups: the second failed, the third was done before the first;
\* the merged index is the first group's with the third's function appended
C12_Witness ==
    /\ spc = "returned"
    /\ completed = <<2, 3, 1>>
    /\ errors = <<2>>
    /\ merged_index.scanned_group = 1
    /\ merged_index.functions = <<<<1, 1>>, <<3, 1>>>>

====
